---- MODULE Spec2Model ----
(***************************************************************************)
(* The lexicon-to-Rust generator of blexicon (src/blexicon/src/main.rs):   *)
(* the serde decode of a lexicon file into LexiconData, codegen_one_def,   *)
(* and the loop of main() over the source files.                           *)
(*                                                                         *)
(* Text.  A Rust String is a sequence of characters and a character is a   *)
(* one-token string ("a", "#", "-", ".").  "U+00E9" is a character whose   *)
(* UTF-8 encoding takes two bytes and "U+00C9" is its upper case.  A       *)
(* literal piece of a format! template is one token (Lit("Option<")), so   *)
(* format! is concatenation and no literal can be mistaken for input text. *)
(* Option<T> is a sequence of length at most one: None is <<>>, Some(v) is *)
(* <<v>>.                                                                  *)
(***************************************************************************)
EXTENDS Naturals, Sequences, FiniteSets, TLC

VARIABLES
    source,   \* opts.source: the files named on the command line, as read
    pc,       \* where main() is: "files", "defs", "done", "panicked"
    fi,       \* index in source of the file the outer loop is at
    lex,      \* the LexiconFile decoded from source[fi] (its defs)
    di,       \* index in lex of the definition the inner loop is at
    stdout,   \* what println! has written, one entry per call
    stderr    \* what the process has written to stderr (panic messages)

vars == <<source, pc, fi, lex, di, stdout, stderr>>

None == <<>>
Some(v) == <<v>>
Range(s) == {s[i] : i \in 1..Len(s)}
Lit(t) == <<t>>

---------------------------------------------------------------------------
(* Bounds of the inputs.                                                   *)
MaxLen == 2       \* longest property name
MaxRefLen == 3    \* longest reference string
MaxRefs == 2      \* most member references of a union
MaxProps == 2     \* most properties of an object of the small pool
MaxDefs == 2      \* most definitions of a document
MaxFiles == 2     \* most files on the command line

RECURSIVE StringsUpTo(_, _)
StringsUpTo(chars, n) ==
    IF n = 0 THEN {<<>>}
    ELSE LET shorter == StringsUpTo(chars, n - 1)
         IN  shorter \cup {Append(s, c) : s \in shorter, c \in chars}

RECURSIVE SeqsUpTo(_, _)
SeqsUpTo(S, n) ==
    IF n = 0 THEN {<<>>}
    ELSE LET shorter == SeqsUpTo(S, n - 1)
         IN  shorter \cup {Append(s, x) : s \in shorter, x \in S}

---------------------------------------------------------------------------
(* str and char operations of the Rust standard library used by the code.  *)

Utf8Len(c) == IF c \in {"U+00E9", "U+00C9"} THEN 2 ELSE 1

\* char::to_uppercase: an iterator of characters
to_uppercase(c) ==
    CASE c = "a" -> <<"A">>
      [] c = "b" -> <<"B">>
      [] c = "U+00E9" -> <<"U+00C9">>
      [] OTHER -> <<c>>

\* str::contains(char)
contains(s, c) == \E i \in 1..Len(s) : s[i] = c

\* str::replace(char, &str) with a one-character replacement
replace(s, from, to) == [i \in 1..Len(s) |-> IF s[i] = from THEN to ELSE s[i]]

\* str::split(pat): the pieces between the occurrences of pat, left to right;
\* a string without pat (the empty string too) is its own single piece
RECURSIVE split(_, _)
split(s, pat) ==
    IF ~contains(s, pat) THEN <<s>>
    ELSE LET i == CHOOSE k \in 1..Len(s) :
                      s[k] = pat /\ \A j \in 1..(k - 1) : s[j] # pat
         IN  <<SubSeq(s, 1, i - 1)>> \o split(SubSeq(s, i + 1, Len(s)), pat)

\* Iterator::last
last(it) == IF Len(it) = 0 THEN None ELSE Some(it[Len(it)])

\* Option::unwrap_or
unwrap_or(opt, default) == IF opt = None THEN default ELSE opt[1]

\* &s[1..]: the slice from byte 1; it panics (here: None) when byte 1 is past
\* the end or is not a character boundary
slice_from_1(s) ==
    IF Len(s) = 0 THEN None
    ELSE IF Utf8Len(s[1]) # 1 THEN None
    ELSE Some(Tail(s))

---------------------------------------------------------------------------
(* The decode (serde_json::from_str into LexiconFile).                     *)
(*                                                                         *)
(* A JSON object is a record of values together with `present`, the set of *)
(* its keys: a key outside `present` is missing from the document.  The    *)
(* scalar constraint fields (maxLength, format, ...) are modelled by their *)
(* presence alone.  A decode returns None for serde's Err.                 *)

\* #[serde(tag = "type")] #[serde(rename_all = "lowercase")] on LexiconDataType
Tags ==
    {"string", "bytes", "blob", "array", "record", "subscription", "query",
     "procedure", "params", "union", "object", "ref", "unknown", "boolean",
     "null", "cid-link", "integer", "token"}

\* the fields of the struct each variant carries
Fields(type) ==
    CASE type = "string" ->
             {"format", "maxLength", "minLength", "maxGraphemes", "minGraphemes",
              "knownValues", "enum", "default", "const"}
      [] type = "bytes" -> {"maxLength", "minLength"}
      [] type = "blob" -> {"accept", "maxSize"}
      [] type = "array" -> {"items", "maxLength"}
      [] type = "record" -> {"key", "record"}
      [] type = "subscription" -> {"parameters", "message", "errors"}
      [] type = "query" -> {"parameters", "output", "errors"}
      [] type = "procedure" -> {"parameters", "input", "output", "errors"}
      [] type = "params" -> {"required", "properties"}
      [] type = "union" -> {"refs", "closed"}
      [] type = "object" -> {"required", "nullable", "properties"}
      [] type = "ref" -> {"ref"}
      [] type = "boolean" -> {"default", "const"}
      [] type = "integer" -> {"minimum", "maximum", "enum", "default", "const"}
      [] OTHER -> {}

\* the fields that are neither Option<_> nor #[serde(default)]: a document
\* without one of them does not decode
Mandatory(type) ==
    CASE type = "blob" -> {"accept"}
      [] type = "array" -> {"items"}
      [] type = "record" -> {"key", "record"}
      [] type = "subscription" -> {"errors"}
      [] type = "params" -> {"required", "properties"}
      [] type = "union" -> {"refs"}
      [] type = "object" -> {"properties"}
      [] type = "ref" -> {"ref"}
      [] OTHER -> {}

\* the value of field f of a struct of the given type: the document's when the
\* key is there, Default::default() (or None) when it is missing
FieldOr(raw, type, f, default) ==
    IF f \in Fields(type) /\ f \in raw.present THEN raw[f] ELSE default

\* SomeError: name is mandatory
DecodeErrors(errs) ==
    IF \A i \in 1..Len(errs) : "name" \in errs[i].present
    THEN Some([i \in 1..Len(errs) |-> [description |-> "description" \in errs[i].present]])
    ELSE None

RECURSIVE DecodeNode(_)
RECURSIVE DecodeObjectType(_)
RECURSIVE DecodeProperties(_)
RECURSIVE DecodeBody(_, _)

\* LinkedHashMap<String, LexiconData>: the entries in the document's order
DecodeProperties(props) ==
    IF \A i \in 1..Len(props) : DecodeNode(props[i].def) # None
    THEN Some([i \in 1..Len(props) |->
                  [name |-> props[i].name, def |-> DecodeNode(props[i].def)[1]]])
    ELSE None

\* OutputType, InputType (encoding mandatory, schema optional) and
\* SubscribeMessage (schema mandatory): Some(Some(body)), Some(None) when the
\* key is missing, None when the body does not decode
DecodeBody(raw, f) ==
    IF ~(f \in Fields(raw.type) /\ f \in raw.present) THEN Some(None)
    ELSE LET b == raw[f][1]
             need == IF f = "message" THEN {"schema"} ELSE {"encoding"}
         IN  IF ~(need \subseteq b.present) THEN None
             ELSE IF "schema" \notin b.present THEN Some(Some([schema |-> None]))
             ELSE IF DecodeNode(b.schema[1]) = None THEN None
             ELSE Some(Some([schema |-> DecodeNode(b.schema[1])]))

\* ObjectType as a field (parameters, record): no tag, no description
DecodeObjectType(raw) ==
    IF "properties" \notin raw.present THEN None
    ELSE IF DecodeProperties(raw.properties) = None THEN None
    ELSE Some([required |-> FieldOr(raw, "object", "required", <<>>),
               nullable |-> FieldOr(raw, "object", "nullable", <<>>),
               properties |-> DecodeProperties(raw.properties)[1]])

\* LexiconData: the variant named by "type" (flattened) and the description
DecodeNode(raw) ==
    LET t == raw.type
        has(f) == f \in Fields(t) /\ f \in raw.present
        items == IF has("items") THEN DecodeNode(raw.items[1]) ELSE None
        props == IF has("properties") THEN DecodeProperties(raw.properties)
                 ELSE Some(<<>>)
        record == IF has("record") THEN DecodeObjectType(raw.record[1]) ELSE None
        params == IF has("parameters") THEN DecodeObjectType(raw.parameters[1])
                  ELSE None
        errors == IF has("errors") THEN DecodeErrors(raw.errors) ELSE Some(<<>>)
        output == DecodeBody(raw, "output")
        input == DecodeBody(raw, "input")
        message == DecodeBody(raw, "message")
    IN  IF t \notin Tags THEN None
        ELSE IF ~(Mandatory(t) \subseteq raw.present) THEN None
        ELSE IF has("items") /\ items = None THEN None
        ELSE IF props = None THEN None
        ELSE IF has("record") /\ record = None THEN None
        ELSE IF has("parameters") /\ params = None THEN None
        ELSE IF errors = None THEN None
        ELSE IF output = None \/ input = None \/ message = None THEN None
        ELSE Some([kind |-> t,
                   description |-> IF "description" \in raw.present
                                   THEN Some(raw.description) ELSE None,
                   some |-> (Fields(t) \cap raw.present)
                            \ {"items", "properties", "required", "nullable", "refs",
                               "closed", "errors", "parameters", "output", "input",
                               "message", "record", "ref"},
                   reference |-> FieldOr(raw, t, "ref", <<>>),
                   items |-> items,
                   properties |-> props[1],
                   required |-> FieldOr(raw, t, "required", <<>>),
                   nullable |-> FieldOr(raw, t, "nullable", <<>>),
                   refs |-> FieldOr(raw, t, "refs", <<>>),
                   closed |-> FieldOr(raw, t, "closed", None),
                   errors |-> errors[1],
                   parameters |-> params,
                   record |-> record,
                   output |-> output[1],
                   input |-> input[1],
                   message |-> message[1]])

\* LexiconFile: lexicon, id and defs are mandatory; None when the text is no
\* JSON object, a mandatory key is missing or a definition does not decode
DecodeFile(file) ==
    IF ~file.json THEN None
    ELSE IF ~({"lexicon", "id", "defs"} \subseteq file.present) THEN None
    ELSE DecodeProperties(file.defs)

---------------------------------------------------------------------------
(* codegen_one_def.  A panic is the result None.  The text of a struct is  *)
(* kept as its pieces: the name and, per field, what the three push_str    *)
(* calls of the loop body appended (the doc line, the rename line, the     *)
(* declaration line's identifier and type); the constant parts of the      *)
(* templates are implied.                                                  *)

HASH == "#"

\* Iterator::next in place of Iterator::last: the piece before the first '#'
inner_type_ref_first(reference) == split(reference, HASH)[1]

\* line 208: the item type of an array of refs
inner_type_ref(reference) == unwrap_or(last(split(reference, HASH)), reference)

\* line 213: the type of a ref property
rust_type_ref(reference) == unwrap_or(last(split(reference, HASH)), reference)

\* line 258: the variant of a union member
variant_name(reference) == unwrap_or(last(split(reference, HASH)), reference)

\* lines 204-210: the match on arr.items.data
inner_type(items) ==
    CASE items.kind = "string" -> Lit("String")
      [] items.kind = "integer" -> Lit("i64")
      [] items.kind = "boolean" -> Lit("bool")
      [] items.kind = "ref" -> inner_type_ref(items.reference)
      [] OTHER -> Lit("String")

\* line 218: defname, then the first character of propname in upper case, then
\* &propname[1..]; unwrap() of the first character of an empty name panics, and
\* so does the slice when the first character is not one byte long
nested_type_name(defname, propname) ==
    IF Len(propname) = 0 THEN None
    ELSE IF slice_from_1(propname) = None THEN None
    ELSE Some(defname \o to_uppercase(propname[1]) \o slice_from_1(propname)[1])

\* lines 199-221: the match on propdef.data
rust_type(defname, propname, propdef) ==
    CASE propdef.kind = "string" -> Some(Lit("String"))
      [] propdef.kind = "integer" -> Some(Lit("i64"))
      [] propdef.kind = "boolean" -> Some(Lit("bool"))
      [] propdef.kind = "array" ->
             Some(Lit("Vec<") \o inner_type(propdef.items[1]) \o Lit(">"))
      [] propdef.kind = "ref" -> Some(rust_type_ref(propdef.reference))
      [] propdef.kind = "cid-link" -> Some(Lit("String"))
      [] propdef.kind = "bytes" -> Some(Lit("Vec<u8>"))
      [] propdef.kind = "object" -> nested_type_name(defname, propname)
      [] OTHER -> Some(Lit("String"))

\* lines 196-197
is_required(o, propname) == propname \in Range(o.required)

is_nullable(o, propname) == propname \in Range(o.nullable)

\* final_type with the two triggers of optionality joined by "and"
final_type_both(required, nullable, type) ==
    IF ~required /\ nullable THEN Lit("Option<") \o type \o Lit(">") ELSE type

\* lines 224-228
final_type(required, nullable, type) ==
    IF ~required \/ nullable THEN Lit("Option<") \o type \o Lit(">") ELSE type

\* rust_safe_name that looks for '-' alone
rust_safe_name_dash(propname) ==
    IF contains(propname, "-")
    THEN Lit("    #[serde(rename = \"") \o propname \o Lit("\")]\n")
    ELSE <<>>

\* lines 231-235: the #[serde(rename = "...")] line, or the empty string
rust_safe_name(propname) ==
    IF contains(propname, "-") \/ contains(propname, ".")
    THEN Lit("    #[serde(rename = \"") \o propname \o Lit("\")]\n")
    ELSE <<>>

\* line 244
rust_field_name(propname) == replace(replace(propname, "-", "_"), ".", "_")

\* lines 195-246: one iteration of the loop over o.properties
codegen_field(defname, o, prop) ==
    LET type == rust_type(defname, prop.name, prop.def)
    IN  IF type = None THEN None
        ELSE Some([doc |-> prop.def.description,
                   rename |-> rust_safe_name(prop.name),
                   name |-> rust_field_name(prop.name),
                   type |-> final_type(is_required(o, prop.name),
                                       is_nullable(o, prop.name), type[1])])

\* lines 194-246: fields_str, None when an iteration panics
fields_str(defname, o) ==
    IF \E i \in 1..Len(o.properties) :
           codegen_field(defname, o, o.properties[i]) = None
    THEN None
    ELSE Some([i \in 1..Len(o.properties) |->
                  codegen_field(defname, o, o.properties[i])[1]])

\* variants that keeps the first of the members with equal tails
variants_nodup(u) ==
    LET all == [i \in 1..Len(u.refs) |-> variant_name(u.refs[i])]
        keep == {i \in 1..Len(all) : \A j \in 1..(i - 1) : all[j] # all[i]}
    IN  [n \in 1..Cardinality(keep) |->
            all[CHOOSE i \in keep : Cardinality({j \in keep : j <= i}) = n]]

\* lines 256-260
variants(u) == [i \in 1..Len(u.refs) |-> variant_name(u.refs[i])]

\* one println! of main: what it is (a "Reading" line, a struct, an enum, a
\* comment) and its pieces
Block(form, name, fields, vars_, debug) ==
    [form |-> form, name |-> name, fields |-> fields, variants |-> vars_,
     debug |-> debug]

\* lines 191-272
codegen_one_def(defname, def) ==
    CASE def.kind = "object" ->
             IF fields_str(defname, def) = None THEN None
             ELSE Some(Block("struct", defname, fields_str(defname, def)[1], <<>>, ""))
      [] def.kind = "union" ->
             Some(Block("enum", defname, <<>>, variants(def), ""))
      [] OTHER ->
             Some(Block("comment", defname, <<>>, <<>>, def.kind))

---------------------------------------------------------------------------
(* main(): the loop over opts.source and, per file, over lex.defs.         *)

\* line 318: the name of the i-th file of the command line: f, ff, fff, ...
fname(i) == [j \in 1..i |-> "f"]

\* line 319: println!("Reading {}", &fname)
Reading(i) == Block("reading", fname(i), <<>>, <<>>, "")

\* the panic messages, as written to stderr
CouldNotRead(i) == Lit("Could not read ") \o fname(i)

UnwrapErr == Lit("called Result::unwrap() on an Err value")

CodegenPanic == Lit("codegen_one_def panicked (line 218)")

\* lines 318-321: the file is read and decodes; the loop over its defs starts
ReadFileOk ==
    /\ pc = "files"
    /\ fi <= Len(source)
    /\ source[fi].readable
    /\ DecodeFile(source[fi]) # None
    /\ stdout' = Append(stdout, Reading(fi))
    /\ lex' = DecodeFile(source[fi])[1]
    /\ di' = 1
    /\ pc' = "defs"
    /\ UNCHANGED <<source, fi, stderr>>

\* lines 320, 326-328: read_to_string fails, panic!("Could not read ...")
ReadFilePanic ==
    /\ pc = "files"
    /\ fi <= Len(source)
    /\ ~source[fi].readable
    /\ stdout' = Append(stdout, Reading(fi))
    /\ stderr' = Append(stderr, CouldNotRead(fi))
    /\ pc' = "panicked"
    /\ UNCHANGED <<source, fi, lex, di>>

\* line 321: serde_json::from_str(..).unwrap() on an Err
DecodePanic ==
    /\ pc = "files"
    /\ fi <= Len(source)
    /\ source[fi].readable
    /\ DecodeFile(source[fi]) = None
    /\ stdout' = Append(stdout, Reading(fi))
    /\ stderr' = Append(stderr, UnwrapErr)
    /\ pc' = "panicked"
    /\ UNCHANGED <<source, fi, lex, di>>

\* lines 323-325: println!("{}", codegen_one_def(name, def))
EmitDef ==
    /\ pc = "defs"
    /\ di <= Len(lex)
    /\ codegen_one_def(lex[di].name, lex[di].def) # None
    /\ stdout' = Append(stdout, codegen_one_def(lex[di].name, lex[di].def)[1])
    /\ di' = di + 1
    /\ UNCHANGED <<source, pc, fi, lex, stderr>>

\* line 324 when codegen_one_def panics (line 218)
EmitDefPanic ==
    /\ pc = "defs"
    /\ di <= Len(lex)
    /\ codegen_one_def(lex[di].name, lex[di].def) = None
    /\ stderr' = Append(stderr, CodegenPanic)
    /\ pc' = "panicked"
    /\ UNCHANGED <<source, fi, lex, di, stdout>>

\* line 325: the defs of the file are exhausted, on to the next file
EndFile ==
    /\ pc = "defs"
    /\ di > Len(lex)
    /\ fi' = fi + 1
    /\ pc' = "files"
    /\ UNCHANGED <<source, lex, di, stdout, stderr>>

\* line 329: the files are exhausted, main returns
Exit ==
    /\ pc = "files"
    /\ fi > Len(source)
    /\ pc' = "done"
    /\ UNCHANGED <<source, fi, lex, di, stdout, stderr>>

Next ==
    \/ ReadFileOk
    \/ ReadFilePanic
    \/ DecodePanic
    \/ EmitDef
    \/ EmitDefPanic
    \/ EndFile
    \/ Exit

\* the state main() starts its loop in, for the given command line
Start(files) ==
    /\ source = files
    /\ pc = "files"
    /\ fi = 1
    /\ lex = <<>>
    /\ di = 1
    /\ stdout = <<>>
    /\ stderr = <<>>

---------------------------------------------------------------------------
(* The input documents.                                                    *)

\* a JSON object {"type": type} with no other key
RawNode(type) ==
    [type |-> type, present |-> {}, description |-> <<>>, ref |-> <<>>,
     items |-> None, properties |-> <<>>, required |-> <<>>, nullable |-> <<>>,
     refs |-> <<>>, closed |-> None, errors |-> <<>>, parameters |-> None,
     output |-> None, input |-> None, message |-> None, record |-> None]

\* the object with key f set to v
With(raw, f, v) == [raw EXCEPT ![f] = v, !.present = @ \cup {f}]

\* the object with the keys fs set (to values the model does not keep)
Mark(raw, fs) == [raw EXCEPT !.present = @ \cup fs]

Property(name, def) == [name |-> name, def |-> def]

RawObject(props, required, nullable) ==
    With(With(With(RawNode("object"), "properties", props),
              "required", required), "nullable", nullable)

RawRef(reference) == With(RawNode("ref"), "ref", reference)

RawArray(items) == With(RawNode("array"), "items", Some(items))

RawUnion(refs) == With(RawNode("union"), "refs", refs)

\* the smallest document of each type that decodes
Minimal(type) ==
    CASE type = "blob" -> Mark(RawNode(type), {"accept"})
      [] type = "array" -> RawArray(RawNode("string"))
      [] type = "record" ->
             With(Mark(RawNode(type), {"key"}), "record",
                  Some(With(RawNode("object"), "properties", <<>>)))
      [] type = "subscription" -> With(RawNode(type), "errors", <<>>)
      [] type = "params" ->
             With(With(RawNode(type), "required", <<>>), "properties", <<>>)
      [] type = "union" -> RawUnion(<<<<"#", "a">>>>)
      [] type = "object" -> With(RawNode(type), "properties", <<>>)
      [] type = "ref" -> RawRef(<<"#", "a">>)
      [] OTHER -> RawNode(type)

\* a file that holds a lexicon document with the given defs
Doc(defs) ==
    [readable |-> TRUE, json |-> TRUE, present |-> {"lexicon", "id", "defs"},
     defs |-> defs]

\* a file read_to_string cannot read
Unreadable == [readable |-> FALSE, json |-> FALSE, present |-> {}, defs |-> <<>>]

\* a file whose text is no JSON object
NotJson == [readable |-> TRUE, json |-> FALSE, present |-> {}, defs |-> <<>>]

\* a lexicon document without "id"
NoId == [readable |-> TRUE, json |-> TRUE, present |-> {"lexicon", "defs"}, defs |-> <<>>]

\* the i-th definition name of a document: D, DD, DDD, ...
DefName(i) == [j \in 1..i |-> "D"]

\* the defs mapping of a document whose definitions are, in order, nodes
Defs(nodes) == [i \in 1..Len(nodes) |-> Property(DefName(i), nodes[i])]

\* an object whose property "" is an inline object: line 218 panics on it
EmptyNameObject ==
    RawObject(<<Property(<<>>, Minimal("object"))>>, <<>>, <<>>)

\* command lines that make every step of main() happen
BaseSources ==
    {<<Unreadable>>, <<NotJson>>, <<Doc(Defs(<<EmptyNameObject>>))>>,
     <<Doc(Defs(<<Minimal("query")>>))>>}

\* --- the pool of the whole-run specification ---

DefPool ==
    {Minimal("query"),
     Minimal("string"),
     RawUnion(<<<<"#", "a">>, <<"b", "#", "a">>>>),
     RawObject(<<Property(<<"a">>, RawNode("string"))>>, <<<<"a">>, <<"g">>>>, <<>>),
     EmptyNameObject,
     With(RawNode("params"), "properties", <<>>),
     RawNode("bogus")}

FilePool ==
    {Unreadable, NotJson, NoId} \cup {Doc(Defs(d)) : d \in SeqsUpTo(DefPool, MaxDefs)}

\* one to MaxFiles files of the pool on the command line
Init == \E n \in 1..MaxFiles : \E files \in [1..n -> FilePool] : Start(files)

Spec == Init /\ [][Next]_vars

\* --- one object definition, its properties drawn widely ---

NameChars == {"a", "-", ".", "U+00E9"}

PropNames == StringsUpTo(NameChars, MaxLen)

SmallRefs == {<<"a">>, <<"#", "a">>, <<"a", "#">>, <<"b", ".", "c", "#", "a">>}

\* what the items of an array may be: every type, an array of arrays too
ItemNodes ==
    {Minimal(t) : t \in Tags \ {"ref"}} \cup {RawRef(r) : r \in SmallRefs}

\* what a property may be
FieldNodes ==
    {Minimal(t) : t \in Tags \ {"ref", "array"}}
        \cup {RawRef(r) : r \in SmallRefs}
        \cup {RawArray(n) : n \in ItemNodes}

\* a required or nullable list: empty, the property, a stray name and the property
NameLists(name) == {<<>>, <<name>>, <<<<"g">>, name>>}

\* the lexicon file whose one definition, P, is the given node
OneDef(node) == <<Doc(<<Property(<<"P">>, node)>>)>>

PropPool ==
    {Property(<<"a">>, RawNode("string")),
     Property(<<"b", "-">>, With(RawNode("integer"), "description", <<"d">>)),
     Property(<<"c">>, Minimal("object"))}

DistinctNames(props) ==
    \A i, j \in 1..Len(props) : i # j => props[i].name # props[j].name

SmallPropLists == {q \in SeqsUpTo(PropPool, MaxProps) : DistinctNames(q)}

\* either one property of any name, kind and membership in the two lists, or
\* several properties of the small pool
InitFields ==
    \/ \E files \in BaseSources : Start(files)
    \/ \E name \in PropNames, node \in FieldNodes :
           \E req \in NameLists(name), nul \in NameLists(name) :
               Start(OneDef(RawObject(<<Property(name, node)>>, req, nul)))
    \/ \E props \in SmallPropLists,
          req \in {<<>>, <<<<"a">>>>, <<<<"b", "-">>, <<"a">>>>},
          nul \in {<<>>, <<<<"a">>>>, <<<<"c">>>>} :
           Start(OneDef(RawObject(props, req, nul)))

SpecFields == InitFields /\ [][Next]_vars

---------------------------------------------------------------------------
(* What the run has printed for the file it read last, and the             *)
(* definitions those blocks come from.                                     *)

ReadingCount == Cardinality({i \in 1..Len(stdout) : stdout[i].form = "reading"})

\* the index in stdout of the "Reading" line of the f-th file
ReadingAt(f) ==
    CHOOSE i \in 1..Len(stdout) :
        /\ stdout[i].form = "reading"
        /\ Cardinality({j \in 1..i : stdout[j].form = "reading"}) = f

\* the blocks printed between the f-th "Reading" line and the next
Printed(f) ==
    IF f < 1 \/ f > ReadingCount THEN <<>>
    ELSE SubSeq(stdout, ReadingAt(f) + 1,
                IF f < ReadingCount THEN ReadingAt(f + 1) - 1 ELSE Len(stdout))

\* the blocks printed for the file read last; the k-th comes from lex[k]
CurBlocks == Printed(ReadingCount)

IsOption(type) ==
    Len(type) >= 2 /\ type[1] = "Option<" /\ type[Len(type)] = ">"

Unwrapped(type) == IF IsOption(type) THEN SubSeq(type, 2, Len(type) - 1) ELSE type

\* every object definition printed so far gave a struct with one field per
\* property
StructShape ==
    \A k \in 1..Len(CurBlocks) :
        lex[k].def.kind = "object" =>
            /\ CurBlocks[k].form = "struct"
            /\ Len(CurBlocks[k].fields) = Len(lex[k].def.properties)

\* the struct fields printed for the file read last, each with the property and
\* the object definition it comes from
EmittedFields ==
    UNION {{[field |-> CurBlocks[k].fields[j], prop |-> lex[k].def.properties[j],
             o |-> lex[k].def, defname |-> lex[k].name] :
               j \in 1..Len(lex[k].def.properties)} :
           k \in {n \in 1..Len(CurBlocks) : lex[n].def.kind = "object"}}

---------------------------------------------------------------------------
\* C1: a field of a struct is wrapped in Option<...> if and only if its
\* property is absent from `required` or present in `nullable`, whatever the
\* property's kind; it is not wrapped exactly when the property is required
\* and not nullable.
C1_OptionalIffNotRequiredOrNullable ==
    /\ StructShape
    /\ \A e \in EmittedFields :
           LET req == e.prop.name \in Range(e.o.required)
               nul == e.prop.name \in Range(e.o.nullable)
           IN  /\ IsOption(e.field.type) <=> (~req \/ nul)
               /\ (req /\ ~nul) <=> ~IsOption(e.field.type)

\* a required and nullable property of an array kind has been emitted, wrapped
C1_Witness ==
    \E e \in EmittedFields :
        /\ e.prop.name \in Range(e.o.required)
        /\ e.prop.name \in Range(e.o.nullable)
        /\ e.prop.def.kind = "array"
        /\ IsOption(e.field.type)

---------------------------------------------------------------------------
\* the name with each '-' and each '.' replaced by '_'
Sanitized(name) ==
    [i \in 1..Len(name) |-> IF name[i] \in {"-", "."} THEN "_" ELSE name[i]]

\* the wire name a reader of the emitted field recovers: the annotation's when
\* there is one, the identifier otherwise
WireName(field) ==
    IF field.rename # <<>> THEN SubSeq(field.rename, 2, Len(field.rename) - 1)
    ELSE field.name

\* C3: the field identifier is the property name with each '-' and '.' replaced
\* by '_'; a #[serde(rename = "<name>")] line with the original name is emitted
\* if and only if the identifier differs from the name; the original name is
\* recoverable from the emitted field.
C3_SanitizedAndRecoverable ==
    /\ StructShape
    /\ \A e \in EmittedFields :
           /\ e.field.name = Sanitized(e.prop.name)
           /\ (e.field.rename # <<>>) <=> (e.field.name # e.prop.name)
           /\ e.field.rename # <<>> =>
                  /\ Len(e.field.rename) = Len(e.prop.name) + 2
                  /\ e.field.rename[1] = "    #[serde(rename = \""
                  /\ e.field.rename[Len(e.field.rename)] = "\")]\n"
           /\ WireName(e.field) = e.prop.name

\* a property whose name holds a '.' and no '-' has been emitted with its
\* rename line
C3_Witness ==
    \E e \in EmittedFields :
        /\ contains(e.prop.name, ".")
        /\ ~contains(e.prop.name, "-")
        /\ e.field.rename # <<>>
        /\ e.field.name # e.prop.name

---------------------------------------------------------------------------
CodegenPanicked ==
    /\ pc = "panicked"
    /\ stderr[Len(stderr)] = CodegenPanic

\* the property name with its first character in upper case
Capitalized(name) ==
    IF name = <<>> THEN <<>> ELSE to_uppercase(name[1]) \o Tail(name)

\* C6: whatever the definition name and the property name, an inline-object
\* property gets the type <definition name><Capitalized property name>, and
\* generation of the enclosing definition completes.
C6_NestedTypeNamedAlways ==
    /\ StructShape
    /\ \A e \in EmittedFields :
           e.prop.def.kind = "object" =>
               Unwrapped(e.field.type) = e.defname \o Capitalized(e.prop.name)
    /\ ~(/\ CodegenPanicked
         /\ lex[di].def.kind = "object"
         /\ \E j \in 1..Len(lex[di].def.properties) :
                lex[di].def.properties[j].def.kind = "object")

---------------------------------------------------------------------------
\* the substring after the last '#', the whole string when it has none
AfterLastHash(s) ==
    LET at == {i \in 1..Len(s) : s[i] = "#"}
    IN  IF at = {} THEN s
        ELSE SubSeq(s, (CHOOSE i \in at : \A j \in at : j <= i) + 1, Len(s))

\* the field-type table of the specification, applied to the items of an array
\* as to a property
RECURSIVE Table(_, _, _)
Table(defname, propname, node) ==
    CASE node.kind = "string" -> Lit("String")
      [] node.kind = "integer" -> Lit("i64")
      [] node.kind = "boolean" -> Lit("bool")
      [] node.kind = "bytes" -> Lit("Vec<u8>")
      [] node.kind = "cid-link" -> Lit("String")
      [] node.kind = "ref" -> AfterLastHash(node.reference)
      [] node.kind = "object" -> defname \o Capitalized(propname)
      [] node.kind = "array" ->
             Lit("Vec<") \o Table(defname, propname, node.items[1]) \o Lit(">")
      [] OTHER -> Lit("String")

\* C8: the type of a field is what the table gives, the item type of an array
\* being the table applied to the array's item node.
C8_TableAppliedToItems ==
    /\ StructShape
    /\ \A e \in EmittedFields :
           Unwrapped(e.field.type) = Table(e.defname, e.prop.name, e.prop.def)

---------------------------------------------------------------------------
(* References: one reference string at the three sites that resolve it.    *)

RefChars == {"a", ".", "#"}

RefStrings == StringsUpTo(RefChars, MaxRefLen)

MemberChars == {"a", "#"}

MemberRefs == StringsUpTo(MemberChars, MaxRefLen)

\* an object with a ref property and an array-of-ref property of reference r
RefObject(r) ==
    RawObject(<<Property(<<"r">>, RawRef(r)), Property(<<"s">>, RawArray(RawRef(r)))>>,
              <<<<"r">>>>, <<>>)

\* a document that resolves r at the three sites; a union of any member list,
\* closed or open
InitRefs ==
    \/ \E files \in BaseSources : Start(files)
    \/ \E r \in RefStrings :
           Start(<<Doc(Defs(<<RefObject(r), RawUnion(<<r>>)>>))>>)
    \/ \E n \in 0..MaxRefs : \E refs \in [1..n -> MemberRefs] :
           \/ Start(OneDef(RawUnion(refs)))
           \/ Start(OneDef(With(RawUnion(refs), "closed", Some(TRUE))))

SpecRefs == InitRefs /\ [][Next]_vars

\* every union definition printed so far gave an enum with one variant per
\* member
EnumShape ==
    \A k \in 1..Len(CurBlocks) :
        lex[k].def.kind = "union" =>
            /\ CurBlocks[k].form = "enum"
            /\ Len(CurBlocks[k].variants) = Len(lex[k].def.refs)

\* the local names printed for the file read last, each with the reference
\* string it was resolved from and the site that resolved it
EmittedRefs ==
    {[site |-> "ref", ref |-> e.prop.def.reference, name |-> Unwrapped(e.field.type)] :
        e \in {x \in EmittedFields : x.prop.def.kind = "ref"}}
    \cup
    {[site |-> "array", ref |-> e.prop.def.items[1].reference,
      name |-> SubSeq(Unwrapped(e.field.type), 2, Len(Unwrapped(e.field.type)) - 1)] :
        e \in {x \in EmittedFields :
                  x.prop.def.kind = "array" /\ x.prop.def.items[1].kind = "ref"}}
    \cup
    UNION {{[site |-> "union", ref |-> lex[k].def.refs[i],
             name |-> CurBlocks[k].variants[i]] : i \in 1..Len(lex[k].def.refs)} :
           k \in {n \in 1..Len(CurBlocks) : lex[n].def.kind = "union"}}

\* C2: at each of the three sites (a Ref property, a Ref item of an Array
\* property, a Union member) the local name is the substring of the reference
\* after its last '#', the whole reference when it has no '#'; equal references
\* give equal names at every site; extracting again from a local name returns it.
C2_ReferenceTail ==
    /\ StructShape
    /\ EnumShape
    /\ \A x \in EmittedRefs :
           /\ x.name = AfterLastHash(x.ref)
           /\ AfterLastHash(x.name) = x.name
    /\ \A x, y \in EmittedRefs : x.ref = y.ref => x.name = y.name

\* one reference, with text on both sides of a '#', has been resolved at the
\* three sites
C2_Witness ==
    \E x, y, z \in EmittedRefs :
        /\ x.site = "ref" /\ y.site = "array" /\ z.site = "union"
        /\ x.ref = y.ref /\ y.ref = z.ref
        /\ x.ref = <<"a", "#", "a">>

\* C7: a union definition gives an enum named after the definition with one
\* variant per member reference, the i-th being the tail of the i-th reference,
\* in the list's order; members with equal tails do not make generation fail.
C7_UnionVariantsInOrder ==
    /\ EnumShape
    /\ \A k \in 1..Len(CurBlocks) :
           lex[k].def.kind = "union" =>
               /\ CurBlocks[k].name = lex[k].name
               /\ \A i \in 1..Len(lex[k].def.refs) :
                      CurBlocks[k].variants[i] = AfterLastHash(lex[k].def.refs[i])
    /\ ~(CodegenPanicked /\ lex[di].def.kind = "union")

\* a union whose two members differ and have the same tail has been emitted
C7_Witness ==
    \E k \in 1..Len(CurBlocks) :
        /\ lex[k].def.kind = "union"
        /\ Len(lex[k].def.refs) = 2
        /\ lex[k].def.refs[1] # lex[k].def.refs[2]
        /\ CurBlocks[k].form = "enum"
        /\ Len(CurBlocks[k].variants) = 2
        /\ CurBlocks[k].variants[1] = CurBlocks[k].variants[2]

---------------------------------------------------------------------------
(* The whole run.                                                          *)

DecodeFailed ==
    /\ pc = "panicked"
    /\ stderr[Len(stderr)] = UnwrapErr

\* the loop over the defs of the file read last has been left
DocFinished ==
    \/ pc \in {"files", "done"} /\ fi > 1
    \/ CodegenPanicked

\* the kind of block the specification gives a definition
ExpectedForm(def) ==
    CASE def.kind = "object" -> "struct"
      [] def.kind = "union" -> "enum"
      [] OTHER -> "comment"

\* the blocks printed so far are, in order, those of the first definitions of
\* the document, and no placeholder definition has stopped the run
BlocksInOrder ==
    /\ \A k \in 1..Len(CurBlocks) :
           /\ CurBlocks[k].form = ExpectedForm(lex[k].def)
           /\ CurBlocks[k].name = lex[k].name
           /\ CurBlocks[k].form = "comment" => CurBlocks[k].debug = lex[k].def.kind
    /\ ~(CodegenPanicked /\ ExpectedForm(lex[di].def) = "comment")

\* C4: a decoded document with definitions d1..dn gives exactly n blocks, the
\* i-th from di (a struct for an Object, an enum for a Union, a comment naming
\* the definition for every other kind); a placeholder never aborts the run.
C4_OneBlockPerDefinition ==
    /\ BlocksInOrder
    /\ DocFinished => Len(CurBlocks) = Len(lex)

\* file f decodes and each of its definitions generates
Generates(f) ==
    /\ source[f].readable
    /\ DecodeFile(source[f]) # None
    /\ \A i \in 1..Len(DecodeFile(source[f])[1]) :
           LET d == DecodeFile(source[f])[1][i]
           IN  codegen_one_def(d.name, d.def) # None

\* C5: when a document fails to decode, every other document of the command
\* line, before or after it, is still decoded and has all its declarations
\* emitted.
C5_DecodeFailureLocal ==
    DecodeFailed =>
        \A f \in 1..Len(source) :
            Generates(f) =>
                /\ f <= ReadingCount
                /\ Len(Printed(f)) = Len(DecodeFile(source[f])[1])

\* s occurs in the text t
Occurs(s, t) ==
    \E i \in 0..Len(t) : i + Len(s) <= Len(t) /\ SubSeq(t, i + 1, i + Len(s)) = s

\* the names `required` and `nullable` list that are no property of the object
StrayNames(o) ==
    (Range(o.required) \cup Range(o.nullable))
        \ {o.properties[j].name : j \in 1..Len(o.properties)}

\* the pieces of text of a printed block
BlockTexts(b) ==
    {b.name} \cup Range(b.variants)
        \cup UNION {{b.fields[j].name, b.fields[j].type, b.fields[j].rename}
                        \cup Range(b.fields[j].doc) : j \in 1..Len(b.fields)}

\* C10: an object that lists in `required` or `nullable` a name that is no
\* property still generates, and the name is reported in the block printed for
\* the object or in a diagnostic.
C10_InconsistencyReported ==
    /\ \A k \in 1..Len(CurBlocks) :
           lex[k].def.kind = "object" =>
               \A s \in StrayNames(lex[k].def) :
                   \/ \E t \in BlockTexts(CurBlocks[k]) : Occurs(s, t)
                   \/ \E i \in 1..Len(stderr) : Occurs(s, stderr[i])
    /\ ~(/\ CodegenPanicked
         /\ lex[di].def.kind = "object"
         /\ StrayNames(lex[di].def) # {}
         /\ \A j \in 1..Len(lex[di].def.properties) :
                lex[di].def.properties[j].def.kind # "object")

---------------------------------------------------------------------------
(* The decode of one definition, over every type and every set of keys.    *)

\* a body of "output" or "input"
RawBody == [present |-> {"encoding"}, schema |-> None]

\* the node of the given type with every key of its struct, and "description"
Full(type) ==
    [type |-> type,
     present |-> Fields(type) \cup {"description"},
     description |-> <<"d">>,
     ref |-> <<"#", "a">>,
     items |-> Some(RawNode("string")),
     properties |-> <<Property(<<"a">>, RawNode("string"))>>,
     required |-> <<<<"a">>>>,
     nullable |-> <<<<"a">>>>,
     refs |-> <<<<"#", "a">>>>,
     closed |-> Some(TRUE),
     errors |-> <<[present |-> {"name"}]>>,
     parameters |-> Some(With(RawNode("object"), "properties", <<>>)),
     output |-> Some(RawBody),
     input |-> Some(RawBody),
     message |-> Some([present |-> {"schema"}, schema |-> Some(RawNode("string"))]),
     record |-> Some(With(RawNode("object"), "properties", <<>>))]

\* the node with the keys outside `keys` removed
Restrict(raw, keys) ==
    [f \in DOMAIN raw |->
        IF f = "type" THEN raw.type
        ELSE IF f = "present" THEN keys
        ELSE IF f \in keys THEN raw[f]
        ELSE RawNode(raw.type)[f]]

InitDecode ==
    \/ \E files \in BaseSources : Start(files)
    \/ \E t \in Tags \cup {"bogus"} :
           \E keys \in SUBSET (Fields(t) \cup {"description"}) :
               Start(OneDef(Restrict(Full(t), keys)))

SpecDecode == InitDecode /\ [][Next]_vars

\* the optional fields the specification gives a default
Defaulted(type) ==
    CASE type \in {"object", "params"} -> {"required", "nullable"}
      [] type \in {"query", "procedure", "subscription"} -> {"errors"}
      [] type = "union" -> {"closed"}
      [] OTHER -> {}

\* the file with, in each of its definitions, the defaulted fields that are
\* missing written out with their default
Supplied(file) ==
    [file EXCEPT !.defs =
        [i \in 1..Len(file.defs) |->
            [name |-> file.defs[i].name,
             def |-> [file.defs[i].def EXCEPT
                         !.present = @ \cup (Defaulted(file.defs[i].def.type)
                                                \cap Fields(file.defs[i].def.type))]]]]

\* C9: a definition whose `required`, `nullable`, error list or `closed` is
\* missing decodes, with the empty set, the empty list and "absent" in their
\* place: the omission is no decode failure.
C9_MissingOptionalsDefault ==
    /\ DecodeFailed => DecodeFile(Supplied(source[fi])) = None
    /\ pc = "defs" =>
           \A k \in 1..Len(lex) :
               LET raw == source[fi].defs[k].def
                   d == lex[k].def
               IN  /\ raw.type \in {"object", "params"} /\ "required" \notin raw.present
                          => d.required = <<>>
                   /\ raw.type = "object" /\ "nullable" \notin raw.present
                          => d.nullable = <<>>
                   /\ raw.type \in {"query", "procedure", "subscription"}
                          /\ "errors" \notin raw.present
                          => d.errors = <<>>
                   /\ raw.type = "union" /\ "closed" \notin raw.present
                          => d.closed = None

====
